---- MODULE Spec2Model ----
(***************************************************************************)
(* Valuation and constraint evaluation of the nextmv-io/demos routing      *)
(* templates: the plan updaters planData.Update and fleetData.Update, the  *)
(* vehicle updater vehicleData.Update (time windows), and the vehicle      *)
(* constraints SizeClassificationConstraint.Violated and                   *)
(* CustomConstraint.Violated.                                              *)
(*                                                                         *)
(* Go maps are reference types: a struct copied by a value receiver still  *)
(* points at the same map.  Maps therefore live in a heap (a sequence of   *)
(* map contents), and a struct field holding a map holds a heap reference  *)
(* (0 is the nil map).  A map's contents is a function whose DOMAIN is the *)
(* set of keys present.                                                    *)
(***************************************************************************)
EXTENDS Integers, Sequences, FiniteSets, TLC

VARIABLES pdHeap, pdNodes, fHeap, fNodes, sz, cc, vd, pi, uc, fmt, enc

vars ==
    <<pdHeap, pdNodes, fHeap, fNodes, sz, cc, vd, pi, uc, fmt, enc>>

(***************************************************************************)
(* Bounds and input domains.                                               *)
(***************************************************************************)
\* Number of evaluator states the search keeps for planData (root included).
PDMaxNodes == 4
\* Number of evaluator states the search keeps for fleetData (root included).
FMaxNodes == 4
\* Number of stops of the fleet (bakery) input.
FStops == 2
\* Number of stops of the input of the constraint and vehicle evaluations.
NStops == 3
\* Number of stops of the input of the time-window vehicle evaluation.
VStops == 2
\* Number of solutions the search sends before it closes the channel.
MaxSolutions == 2
\* Number of stops of the input of outputFormat.
OStops == 2
\* Number of stops of the input of the planInfo evaluation.
PStops == 2
\* The scale of the utilization term of planInfo.Update.
UtilScale == 20000

\* Vehicle identifiers of the input.
VehicleIDs == {"v1", "v2"}
\* Values PartialVehicle.Value() reports.
PDValues == {3, 7}
FValues == {3, 7}
\* Unix times of arrivals, and target times of stops.
Times == {900, 1000, 1040}
Targets == {960, 1000}
\* Service times at a location.
ServiceTimes == {0, 5}
\* The (earliness, lateness) penalty of a stop.
Penalties == {<<3, 2>>, <<1, 0>>}
\* initialization_costs of the two vehicles, in tenths (the table holds
\* float64 values: 105 is 10.5).
InitCostTables == {<<105, 200>>, <<0, 75>>}
\* capacities of the two vehicles.
CapacityTables == {<<2, 4>>, <<3, 3>>}
\* The quantity of a stop: negative for a drop-off, positive for a pick-up.
QuantityValues == {-2, 1}
\* The unassigned penalties of the stops, in input order.
PenaltySeq == <<5, 12, 9, 4, 7>>
\* The values the engine holds for a vehicle (s.Value()).
EngineValues == {0, 140}
\* The earliness and lateness penalties of the stops, in input order.
EarlinessPenaltySeq == <<3, 1, 3, 1, 3>>
LatenessPenaltySeq == <<2, 0, 2, 0, 2>>
\* Identifiers of the stops, in input order.
StopNames == <<"s0", "s1", "s2", "s3", "s4">>
\* imbalance_penalty and unassigned_penalty of the fleet input.
ImbalancePenalties == {0, 10}
UnassignedPenalties == {5}

(***************************************************************************)
(* Go maps with string keys and int values.                                *)
(***************************************************************************)
EmptyMap == [k \in {} |-> 0]

\* m[k] of Go: the zero value when the key is absent.
MapGet(m, k) == IF k \in DOMAIN m THEN m[k] ELSE 0

\* m[k] = v of Go.
MapPut(m, k, v) == [x \in (DOMAIN m) \cup {k} |-> IF x = k THEN v ELSE m[x]]

\* The contents of the map behind a reference; the nil map reads as empty.
Deref(heap, ref) == IF ref = 0 THEN EmptyMap ELSE heap[ref]

RECURSIVE SumOver(_, _)
SumOver(m, keys) ==
    IF keys = {} THEN 0
    ELSE LET k == CHOOSE x \in keys : TRUE
         IN  m[k] + SumOver(m, keys \ {k})

\* From-scratch sum of the values of a map.
MapSum(m) == SumOver(m, DOMAIN m)

(***************************************************************************)
(* planData.Update (time-window template).                                 *)
(***************************************************************************)
\* A variant of the safe copy that keeps writing to the caller's map.
SafeCopyShared(heap, ref) ==
    IF ref = 0
    THEN [heap |-> Append(heap, EmptyMap), ref |-> Len(heap) + 1]
    ELSE [heap |-> heap, ref |-> ref]

\* A variant of the safe copy that makes the new map and copies no entry.
SafeCopyEmpty(heap, ref) ==
    [heap |-> Append(heap, EmptyMap), ref |-> Len(heap) + 1]

\* values := make(map[string]int, ...); copy every entry; d.vehicleValues = values
SafeCopy(heap, ref) ==
    [heap |-> Append(heap, Deref(heap, ref)), ref |-> Len(heap) + 1]

\* One iteration of the loop over the changed vehicles, without the
\* subtraction of the old value.
PDStepNoSubtract(m, planValue, vehicle) ==
    LET m2 == MapPut(m, vehicle.id, vehicle.value)
    IN  [m |-> m2, planValue |-> planValue + MapGet(m2, vehicle.id)]

\* One iteration of the loop over the changed vehicles.
PDStep(m, planValue, vehicle) ==
    LET pv1 == planValue - MapGet(m, vehicle.id)
        m2  == MapPut(m, vehicle.id, vehicle.value)
    IN  [m |-> m2, planValue |-> pv1 + MapGet(m2, vehicle.id)]

RECURSIVE PDLoop(_, _, _, _)
PDLoop(m, planValue, vehicles, i) ==
    IF i > Len(vehicles) THEN [m |-> m, planValue |-> planValue]
    ELSE LET s == PDStep(m, planValue, vehicles[i])
         IN  PDLoop(s.m, s.planValue, vehicles, i + 1)

\* planData.Update on state d with the changed vehicles: the heap after the
\* call, the returned state and the returned value.
planDataUpdate(heap, d, vehicles) ==
    LET c == SafeCopy(heap, d.vehicleValues)
        r == PDLoop(c.heap[c.ref], d.planValue, vehicles, 1)
    IN  [heap  |-> [c.heap EXCEPT ![c.ref] = r.m],
         st    |-> [vehicleValues |-> c.ref, planValue |-> r.planValue],
         value |-> r.planValue,
         propagate |-> TRUE]

\* The state planData has in solver: no map, plan value 0.
PDInitState == [vehicleValues |-> 0, planValue |-> 0]

\* The lists of changed vehicles the search reports: distinct vehicles, each
\* with its current Value().
RECURSIVE SeqsOver(_, _)
SeqsOver(S, n) ==
    IF n = 0 THEN {<<>>}
    ELSE LET shorter == SeqsOver(S, n - 1)
         IN  shorter \cup
             {Append(q, x) : q \in {t \in shorter : Len(t) = n - 1}, x \in S}

Distinct(q, key(_)) ==
    \A i, j \in 1..Len(q) : i # j => key(q[i]) # key(q[j])

VehicleID(v) == v.id

ChangedVehicles ==
    {q \in SeqsOver([id : VehicleIDs, value : PDValues], Cardinality(VehicleIDs)) :
        Distinct(q, VehicleID)}

\* The most recent Value() reported for each vehicle on the path to a state.
RECURSIVE Reported(_, _, _)
Reported(prev, vehicles, i) ==
    IF i > Len(vehicles) THEN prev
    ELSE Reported(MapPut(prev, vehicles[i].id, vehicles[i].value), vehicles, i + 1)

PDRoot ==
    [parent |-> 0, vehicles |-> <<>>, st |-> PDInitState, value |-> 0,
     snap |-> EmptyMap, reported |-> EmptyMap]

PDInit ==
    /\ pdHeap = <<>>
    /\ pdNodes = <<PDRoot>>

\* The search calls Update on any state it holds, with the vehicles that
\* changed, and keeps the returned state.
PlanDataUpdate ==
    /\ Len(pdNodes) < PDMaxNodes
    /\ \E p \in 1..Len(pdNodes), vehicles \in ChangedVehicles :
         LET d == pdNodes[p].st
             r == planDataUpdate(pdHeap, d, vehicles)
         IN  /\ pdHeap' = r.heap
             /\ pdNodes' = Append(pdNodes,
                   [parent   |-> p,
                    vehicles |-> vehicles,
                    st       |-> r.st,
                    value    |-> r.value,
                    snap     |-> Deref(r.heap, r.st.vehicleValues),
                    reported |-> Reported(pdNodes[p].reported, vehicles, 1)])

(***************************************************************************)
(* fleetData.Update (bakery template).                                     *)
(***************************************************************************)
\* One iteration of the loop over the changed vehicles: the value map is the
\* one the receiver's field points at, the scalar fields are those of the
\* receiver's copy of the struct.
FStep(m, f, vehicle) ==
    LET ok == vehicle.id \in DOMAIN m
        fv1 == IF ok THEN f.fleetValue - m[vehicle.id] ELSE f.fleetValue
        m2 == MapPut(m, vehicle.id, vehicle.value)
        fv2 == fv1 + m2[vehicle.id]
        length == vehicle.length
        maxLength == IF length > f.maxLength THEN length ELSE f.maxLength
        minLength == IF length < f.minLength THEN length ELSE f.minLength
    IN  [m |-> m2,
         f |-> [f EXCEPT !.fleetValue = fv2,
                         !.maxLength = maxLength,
                         !.minLength = minLength]]

RECURSIVE FLoop(_, _, _, _)
FLoop(m, f, v, i) ==
    IF i > Len(v) THEN [m |-> m, f |-> f]
    ELSE LET s == FStep(m, f, v[i])
         IN  FLoop(s.m, s.f, v, i + 1)

\* The update of the unassigned part of the fleet value, without the removal
\* of the part the state holds from the call before.
FUnassignedNoRemove(f, unassigned) ==
    [f EXCEPT !.unassignedStops = unassigned,
              !.fleetValue = @ + unassigned * f.unassignedPenalty]

\* f.fleetValue -= f.unassignedStops * f.unassignedPenalty;
\* f.unassignedStops = len(plan.Unassigned());
\* f.fleetValue += f.unassignedStops * f.unassignedPenalty
FUnassigned(f, unassigned) ==
    LET fv3 == f.fleetValue - f.unassignedStops * f.unassignedPenalty
    IN  [f EXCEPT !.unassignedStops = unassigned,
                  !.fleetValue = fv3 + unassigned * f.unassignedPenalty]

\* fleetData.Update on state f with the number of unassigned stops of the
\* plan and the changed vehicles: the heap after the call, the returned
\* state, the returned value and the returned flag.
fleetDataUpdate(heap, f, unassigned, v) ==
    LET oldDiff == f.maxLength - f.minLength
        r == FLoop(heap[f.vehicleValues], f, v, 1)
        newDiff == r.f.maxLength - r.f.minLength
        fv1 == r.f.fleetValue - oldDiff * f.imbalancePenalty
        fv2 == fv1 + newDiff * f.imbalancePenalty
        g == FUnassigned([r.f EXCEPT !.fleetValue = fv2], unassigned)
    IN  [heap  |-> [heap EXCEPT ![f.vehicleValues] = r.m],
         st    |-> g,
         value |-> g.fleetValue,
         propagate |-> TRUE]

\* The state fleetData has in solver.
FInitState(imbalancePenalty, unassignedPenalty) ==
    [vehicleValues     |-> 1,
     imbalancePenalty  |-> imbalancePenalty,
     fleetValue        |-> 0,
     minLength         |-> FStops,
     maxLength         |-> 0,
     unassignedStops   |-> 0,
     unassignedPenalty |-> unassignedPenalty]

\* The plan the search starts from: every route holds its start and end
\* only, every stop is unassigned.
FRootPlan ==
    [len |-> [v \in VehicleIDs |-> 2],
     val |-> [v \in VehicleIDs |-> 0],
     unassigned |-> FStops]

\* The candidate plans the search derives from a plan by one move, each with
\* the list of vehicles the move changed.
FInsert(plan) ==
    {[plan |-> [plan EXCEPT !.len[v] = @ + 1, !.val[v] = x, !.unassigned = @ - 1],
      changed |-> <<v>>] :
        v \in {w \in VehicleIDs : plan.unassigned > 0}, x \in FValues}

FRemove(plan) ==
    {[plan |-> [plan EXCEPT !.len[v] = @ - 1, !.val[v] = x, !.unassigned = @ + 1],
      changed |-> <<v>>] :
        v \in {w \in VehicleIDs : plan.len[w] > 2}, x \in FValues}

FRelocate(plan) ==
    {[plan |-> [plan EXCEPT !.len[m[1]] = @ - 1, !.val[m[1]] = m[3],
                            !.len[m[2]] = @ + 1, !.val[m[2]] = m[4]],
      changed |-> <<m[1], m[2]>>] :
        m \in {t \in VehicleIDs \X VehicleIDs \X FValues \X FValues :
                  t[1] # t[2] /\ plan.len[t[1]] > 2}}

FReorder(plan) ==
    {[plan |-> [plan EXCEPT !.val[v] = x], changed |-> <<v>>] :
        v \in {w \in VehicleIDs : plan.len[w] > 3}, x \in FValues}

FMoves(plan) ==
    FInsert(plan) \cup FRemove(plan) \cup FRelocate(plan) \cup FReorder(plan)

\* The changed vehicles as Update reads them: ID(), Value(), len(Route()).
FChanged(plan, changed) ==
    [i \in 1..Len(changed) |->
        [id |-> changed[i], value |-> plan.val[changed[i]],
         length |-> plan.len[changed[i]]]]

FInit ==
    /\ fHeap = <<EmptyMap>>
    /\ \E ip \in ImbalancePenalties, up \in UnassignedPenalties :
          fNodes = <<[parent |-> 0, plan |-> FRootPlan, changed |-> <<>>,
                      st |-> FInitState(ip, up), value |-> 0,
                      before |-> EmptyMap, snap |-> EmptyMap]>>

\* The search calls Update on any state it holds, with a candidate plan
\* derived from that state's plan, and keeps the returned state.
FleetDataUpdate ==
    /\ Len(fNodes) < FMaxNodes
    /\ \E p \in 1..Len(fNodes) :
         \E mv \in FMoves(fNodes[p].plan) :
           LET r == fleetDataUpdate(fHeap, fNodes[p].st, mv.plan.unassigned,
                                    FChanged(mv.plan, mv.changed))
           IN  /\ fHeap' = r.heap
               /\ fNodes' = Append(fNodes,
                     [parent  |-> p,
                      plan    |-> mv.plan,
                      changed |-> mv.changed,
                      st      |-> r.st,
                      value   |-> r.value,
                      before  |-> Deref(fHeap, fNodes[p].st.vehicleValues),
                      snap    |-> Deref(r.heap, r.st.vehicleValues)])

(***************************************************************************)
(* Routes.  A route is a sequence of location indices, counted from 0 as   *)
(* in Go: the stops are 0 .. n-1, and a vehicle's start and end locations  *)
(* follow the stops (the first vehicle's are n and n+1).                   *)
(***************************************************************************)
\* tbl[i] of Go, for a slice held as a sequence.
At(tbl, i) == tbl[i + 1]

\* The routes of the first vehicle over n stops: its start, any number of
\* distinct stops in any order, its end.
StopIndex(i) == i

Routes(n) ==
    {<<n>> \o q \o <<n + 1>> :
        q \in {t \in SeqsOver(0..(n - 1), n) : Distinct(t, StopIndex)}}

\* The stops of a route without its start and end.
Interior(route) == SubSeq(route, 2, Len(route) - 1)

(***************************************************************************)
(* Strings as sequences of characters, for strings.ToLower.                *)
(***************************************************************************)
UpperChars == <<"A", "B", "C", "D", "E", "F", "G", "H", "I", "J", "K", "L", "M",
                "N", "O", "P", "Q", "R", "S", "T", "U", "V", "W", "X", "Y", "Z">>
LowerChars == <<"a", "b", "c", "d", "e", "f", "g", "h", "i", "j", "k", "l", "m",
                "n", "o", "p", "q", "r", "s", "t", "u", "v", "w", "x", "y", "z">>

ToLowerChar(c) ==
    IF \E i \in 1..Len(UpperChars) : UpperChars[i] = c
    THEN LowerChars[CHOOSE i \in 1..Len(UpperChars) : UpperChars[i] = c]
    ELSE c

\* strings.ToLower
ToLower(str) == [i \in 1..Len(str) |-> ToLowerChar(str[i])]

\* The classification labels of the input.
ClassLabels ==
    {<<"L", "a", "r", "g", "e">>, <<"L", "A", "R", "G", "E">>,
     <<"l", "a", "r", "g", "e">>, <<"S", "m", "a", "l", "l">>,
     <<"L", "a", "r", "g", "e", "r">>}

\* classification[name] of Go: the empty string when there is no entry.
ClassOf(classification, name) ==
    IF name \in DOMAIN classification THEN classification[name] ELSE <<>>

(***************************************************************************)
(* SizeClassificationConstraint.Violated (bakery template).                *)
(***************************************************************************)
\* A comparison of the label that respects case.
IsLargeExact(label) == label = <<"L", "a", "r", "g", "e">>

\* strings.ToLower(c.classification[stopName]) == "large"
IsLarge(label) == ToLower(label) = <<"l", "a", "r", "g", "e">>

\* The loop over route[1] .. route[len(route)-2], from position i with
\* countLarge large stops seen so far.
RECURSIVE SzLoop(_, _, _, _, _)
SzLoop(stops, classification, route, i, countLarge) ==
    IF ~(i < Len(route) - 1) THEN FALSE
    ELSE LET inIdx == At(route, i)
             stopName == At(stops, inIdx)
             count == IF IsLarge(ClassOf(classification, stopName))
                      THEN countLarge + 1 ELSE countLarge
         IN  IF count > 1 THEN TRUE
             ELSE SzLoop(stops, classification, route, i + 1, count)

SizeClassificationConstraintViolated(stops, classification, route) ==
    SzLoop(stops, classification, route, 1, 0)

\* A Violated that stores the lower-cased labels in the classification map.
SizeClassificationConstraintLowered(stops, classification, route) ==
    [stops |-> stops,
     classification |->
         [k \in DOMAIN classification |-> ToLower(classification[k])]]

\* The constraint Violated returns (return c, ...): the receiver, whose
\* stops and classification no statement of Violated assigns to.
SizeClassificationConstraintAfter(stops, classification, route) ==
    [stops |-> stops, classification |-> classification]

SzStops == SubSeq(StopNames, 1, NStops)

\* The classification maps of the input: any set of stop names, each with a
\* label.
Classifications ==
    UNION {[D -> ClassLabels] : D \in SUBSET {SzStops[i] : i \in 1..NStops}}

SzInit ==
    \E classification \in Classifications, route \in Routes(NStops) :
        sz = [pc |-> "call", stops |-> SzStops,
              classification |-> classification, route |-> route,
              violated |-> FALSE]

SizeViolated ==
    /\ sz.pc = "call"
    /\ LET c == SizeClassificationConstraintAfter(
                    sz.stops, sz.classification, sz.route)
       IN  sz' = [sz EXCEPT
                    !.pc = "done",
                    !.stops = c.stops,
                    !.classification = c.classification,
                    !.violated = SizeClassificationConstraintViolated(
                                     sz.stops, sz.classification, sz.route)]

(***************************************************************************)
(* CustomConstraint.Violated (parcel template).                            *)
(***************************************************************************)
\* The package types of the input; a stop without a type has the empty one.
TypeLabels == {"A", "a", ""}

\* A slice of the route that also leaves out the second stop.
CCLocationsShort(route) == SubSeq(route, 4, Len(route) - 1)

\* route[2 : len(vehicle.Route())-1]
CCLocations(route) == SubSeq(route, 3, Len(route) - 1)

\* A guard that counts the distinct labels of the stops that have one.
CCGuardLabels(types) ==
    Cardinality({types[i] : i \in 1..Len(types)} \ {""}) > 1

\* if len(c.types) > 1
CCGuard(types) == Len(types) > 1

RECURSIVE CCLoop(_, _, _, _)
CCLoop(types, label, locations, i) ==
    IF i > Len(locations) THEN FALSE
    ELSE IF CCGuard(types) /\ label # At(types, locations[i]) THEN TRUE
    ELSE CCLoop(types, label, locations, i + 1)

CustomConstraintViolated(types, route) ==
    IF Len(route) <= 3 THEN FALSE
    ELSE CCLoop(types, At(types, At(route, 1)), CCLocations(route), 1)

\* The constraint Violated returns (return c, ...): the receiver, whose
\* types no statement of Violated assigns to.
CustomConstraintAfter(types, route) == types

CcInit ==
    \E types \in [1..NStops -> TypeLabels], route \in Routes(NStops) :
        cc = [pc |-> "call", types |-> types, route |-> route,
              violated |-> FALSE]

CustomViolated ==
    /\ cc.pc = "call"
    /\ cc' = [cc EXCEPT
                !.pc = "done",
                !.types = CustomConstraintAfter(cc.types, cc.route),
                !.violated = CustomConstraintViolated(cc.types, cc.route)]

(***************************************************************************)
(* vehicleData.Update (time-window template).                              *)
(***************************************************************************)
\* int(math.Max(float64(x), 0.0)) without the maximum.
TruncNoMax(x) == x

\* int(math.Max(float64(x), 0.0)): the conversions are exact on differences
\* of Unix times, which are far below 2^53.
TruncMax0(x) == IF x > 0 THEN x ELSE 0

\* The earliness and lateness terms of one stop.
EarlinessOf(target, eta, penalty) == TruncMax0(target - eta) * penalty
LatenessOf(target, eta, penalty) == TruncMax0(eta - target) * penalty

\* The loop over the positions of the route (Go indices i from 0), start and
\* end included.
RECURSIVE VDLoop(_, _, _, _, _)
VDLoop(v, route, times, i, acc) ==
    IF i >= Len(route) THEN acc
    ELSE LET r == At(route, i)
             etas == times.etas
             etds == times.etds
             totalDuration ==
                 acc.totalDuration + (At(etds, Len(etds) - 1) - At(etas, 0))
             hasTarget == r < Len(v.targetTimes)
             target == At(v.targetTimes, r)
         IN  VDLoop(v, route, times, i + 1,
                [totalDuration |-> totalDuration,
                 earliness |->
                     IF hasTarget
                     THEN acc.earliness
                          + EarlinessOf(target, At(etas, i),
                                        At(v.earlinessPenalties, r))
                     ELSE acc.earliness,
                 lateness |->
                     IF hasTarget
                     THEN acc.lateness
                          + LatenessOf(target, At(etas, i),
                                       At(v.latenessPenalties, r))
                     ELSE acc.lateness])

\* vehicleData.Update: the locals at the return, the returned value and the
\* returned flag.
vehicleDataUpdate(v, route, times) ==
    LET acc == VDLoop(v, route, times, 0,
                      [totalDuration |-> 0, earliness |-> 0, lateness |-> 0])
    IN  [totalDuration |-> acc.totalDuration,
         earliness |-> acc.earliness,
         lateness |-> acc.lateness,
         value |-> acc.totalDuration + acc.earliness + acc.lateness,
         propagate |-> TRUE]

\* The updater Update returns (return v, ...): the receiver, whose tables no
\* statement of Update assigns to.
vehicleDataAfter(v, route, times) == v

\* The schedules of a route: arrivals that do not go back in time, and
\* departures a service time after each arrival.
Schedules(route) ==
    {[etas |-> etas, etds |-> [i \in 1..Len(route) |-> etas[i] + svc]] :
        etas \in {e \in [1..Len(route) -> Times] :
                     \A i \in 1..(Len(route) - 1) : e[i] <= e[i + 1]},
        svc \in ServiceTimes}

\* The target-time table covers the first stops of the input or all of them;
\* the penalty tables cover all stops.
TargetTables == UNION {[1..n -> Targets] : n \in 0..VStops}

VdInit ==
    \E targetTimes \in TargetTables, pen \in [1..VStops -> Penalties],
       route \in Routes(VStops) :
       \E times \in Schedules(route) :
          vd = [pc |-> "call",
                v |-> [earlinessPenalties |-> [i \in 1..VStops |-> pen[i][1]],
                       latenessPenalties |-> [i \in 1..VStops |-> pen[i][2]],
                       targetTimes |-> targetTimes],
                route |-> route, times |-> times,
                ret |-> [totalDuration |-> 0, earliness |-> 0, lateness |-> 0,
                         value |-> 0, propagate |-> FALSE]]

VehicleDataUpdate ==
    /\ vd.pc = "call"
    /\ vd' = [vd EXCEPT !.pc = "done",
                        !.v = vehicleDataAfter(vd.v, vd.route, vd.times),
                        !.ret = vehicleDataUpdate(vd.v, vd.route, vd.times)]

(***************************************************************************)
(* planInfo.Update (new value function of the time-window template).       *)
(***************************************************************************)
\* int(x) of a float64 held in tenths: truncation toward zero.
TruncTenths(x) == IF x >= 0 THEN x \div 10 ELSE -((-x) \div 10)

\* The initialization cost term without the test of the route length.
PIInitTermAlways(route, cost) == TruncTenths(cost)

\* if len(route) > 2 { newValue += int(p.initCosts[j]) }
PIInitTerm(route, cost) == IF Len(route) > 2 THEN TruncTenths(cost) ELSE 0

\* The loop over the route (start and end included) that sums the drop-off
\* quantities of the locations the quantities table covers.
RECURSIVE PITotalVolume(_, _, _, _)
PITotalVolume(quantities, route, i, totalVolume) ==
    IF i > Len(route) THEN totalVolume
    ELSE LET r == route[i]
         IN  IF r < Len(quantities) /\ At(quantities, r) < 0
             THEN PITotalVolume(quantities, route, i + 1,
                                totalVolume + At(quantities, r) * (-1))
             ELSE PITotalVolume(quantities, route, i + 1, totalVolume)

\* A utilization term that charges the used fraction.
PIUtilizationUsed(totalVolume, capacity) ==
    (totalVolume * UtilScale) \div capacity

\* frac := float64(totalVolume) / float64(capacity);
\* if frac < 1 { newValue += int((1 - frac) * 20000) }
\* for a positive capacity, in exact arithmetic: the float64 product may
\* fall just below the exact one before it is truncated.
PIUtilization(totalVolume, capacity) ==
    IF totalVolume < capacity
    THEN ((capacity - totalVolume) * UtilScale) \div capacity
    ELSE 0

\* The part of newValue one vehicle adds (j counts from 0).
PIVehicle(p, j, vehicle) ==
    LET route == vehicle.route
        etas == vehicle.times.etas
        etds == vehicle.times.etds
        capacity == At(p.capacities, j)
        totalVolume == PITotalVolume(p.quantities, route, 1, 0)
    IN  PIInitTerm(route, At(p.initCosts, j))
        + PIUtilization(totalVolume, capacity)
        + (At(etds, Len(etds) - 1) - At(etas, 0))

RECURSIVE PIVehicles(_, _, _, _)
PIVehicles(p, vehicles, i, newValue) ==
    IF i > Len(vehicles) THEN newValue
    ELSE PIVehicles(p, vehicles, i + 1,
                    newValue + PIVehicle(p, i - 1, vehicles[i]))

\* A penalty that is the first stop's for every stop.
PIPenaltyFirst(penalties, u) == At(penalties, 0)

\* p.penalties[u]
PIPenalty(penalties, u) == At(penalties, u)

RECURSIVE PIUnassigned(_, _, _, _)
PIUnassigned(penalties, slice, i, newValue) ==
    IF i > Len(slice) THEN newValue
    ELSE PIUnassigned(penalties, slice, i + 1,
                      newValue + PIPenalty(penalties, slice[i]))

\* planInfo.Update: the returned state (the receiver), the returned value
\* and flag; aborted when an index into p.penalties is out of range (a Go
\* run-time panic).
planInfoUpdate(p, plan) ==
    IF \E i \in 1..Len(plan.unassigned) : ~(plan.unassigned[i] < Len(p.penalties))
    THEN [st |-> p, value |-> 0, propagate |-> FALSE, aborted |-> TRUE]
    ELSE [st |-> p,
          value |-> PIUnassigned(p.penalties, plan.unassigned, 1,
                                 PIVehicles(p, plan.vehicles, 1, 0)),
          propagate |-> TRUE,
          aborted |-> FALSE]

\* The times of a route: arrivals 40 apart from 900 on, departures a service
\* time after each arrival.
PTimes(route, svc) ==
    [etas |-> [i \in 1..Len(route) |-> 900 + 40 * (i - 1)],
     etds |-> [i \in 1..Len(route) |-> 900 + 40 * (i - 1) + svc]]

\* The route of vehicle j (from 0) over n stops with the given stops.
PRoute(n, j, stops) == <<n + 2 * j>> \o stops \o <<n + 2 * j + 1>>

RECURSIVE SortedSeq(_)
SortedSeq(S) ==
    IF S = {} THEN <<>>
    ELSE LET m == CHOOSE x \in S : \A y \in S : x <= y
         IN  <<m>> \o SortedSeq(S \ {m})

\* The plans of two vehicles over n stops: every stop is on one route or
\* unassigned.
PlansWith(n, services) ==
    UNION {
      {[vehicles |->
           <<[route |-> PRoute(n, 0, SubSeq(q, 1, k)),
              times |-> PTimes(PRoute(n, 0, SubSeq(q, 1, k)), svc[1])],
             [route |-> PRoute(n, 1, SubSeq(q, k + 1, Len(q))),
              times |-> PTimes(PRoute(n, 1, SubSeq(q, k + 1, Len(q))),
                               svc[2])]>>,
        unassigned |-> SortedSeq((0..(n - 1)) \ {q[i] : i \in 1..Len(q)})] :
          k \in 0..Len(q), svc \in services} :
      q \in {t \in SeqsOver(0..(n - 1), n) : Distinct(t, StopIndex)}}

Plans(n) == PlansWith(n, ServiceTimes \X ServiceTimes)

\* The state planInfo has in solver, over the tables of the input.  The
\* quantities table covers the first stops or all of them; the penalties
\* table covers all stops or all but the last.
PInitStates ==
    {[unassignedStops |-> 0, fleetValue |-> 0, initCosts |-> ic,
      penalties |-> SubSeq(PenaltySeq, 1, np), quantities |-> qs,
      capacities |-> cs] :
        ic \in InitCostTables, cs \in CapacityTables,
        qs \in UNION {[1..m -> QuantityValues] : m \in 0..PStops},
        np \in (PStops - 1)..PStops}

PiInit ==
    \E p \in PInitStates, plan \in Plans(PStops) :
        pi = [pc |-> "call", p |-> p, plan |-> plan,
              ret |-> [st |-> p, value |-> 0, propagate |-> FALSE,
                       aborted |-> FALSE]]

PlanInfoUpdate ==
    /\ pi.pc = "call"
    /\ pi' = [pi EXCEPT !.pc = "done",
                        !.ret = planInfoUpdate(pi.p, pi.plan)]

(***************************************************************************)
(* The value and the flag each updater returns.                            *)
(***************************************************************************)
\* A vehicleInfo.Update that returns the duration of the route.
vehicleInfoUpdateDuration(s) ==
    [value |-> s.times.etds[Len(s.times.etds)] - s.times.etas[1],
     propagate |-> FALSE]

\* vehicleInfo.Update: return v, s.Value(), false
vehicleInfoUpdate(s) == [value |-> s.value, propagate |-> FALSE]

\* vehicleData.Update of the bakery template: return d, 0, false
nullVehicleDataUpdate(s) == [value |-> 0, propagate |-> FALSE]

\* The vehicles an updater is called on: route, times and the engine's value.
PartialVehicles ==
    UNION {{[route |-> route, times |-> times, value |-> x] :
               times \in Schedules(route), x \in EngineValues} :
           route \in Routes(VStops)}

\* The record of a call of a plan-level updater holds no vehicle.
NoVehicle ==
    [route |-> <<>>, times |-> [etas |-> <<>>, etds |-> <<>>], value |-> 0]

Returned(updater, level, s, r) ==
    [pc |-> "done", updater |-> updater, level |-> level, s |-> s,
     ret |-> [value |-> r.value, propagate |-> r.propagate]]

UcInit == uc = [pc |-> "call"]

VehicleInfoUpdate ==
    /\ uc.pc = "call"
    /\ \E s \in PartialVehicles :
          uc' = Returned("vehicleInfo", "vehicle", s, vehicleInfoUpdate(s))

NullVehicleDataUpdate ==
    /\ uc.pc = "call"
    /\ \E s \in PartialVehicles :
          uc' = Returned("bakery vehicleData", "vehicle", s,
                         nullVehicleDataUpdate(s))

TimeWindowVehicleDataUpdate ==
    /\ uc.pc = "call"
    /\ \E s \in PartialVehicles, targetTimes \in TargetTables,
          pen \in [1..VStops -> Penalties] :
          uc' = Returned("vehicleData", "vehicle", s,
                   vehicleDataUpdate(
                      [earlinessPenalties |-> [i \in 1..VStops |-> pen[i][1]],
                       latenessPenalties |-> [i \in 1..VStops |-> pen[i][2]],
                       targetTimes |-> targetTimes],
                      s.route, s.times))

PlanDataFlag ==
    /\ uc.pc = "call"
    /\ \E vehicles \in ChangedVehicles :
          uc' = Returned("planData", "plan", NoVehicle,
                         planDataUpdate(<<>>, PDInitState, vehicles))

FleetDataFlag ==
    /\ uc.pc = "call"
    /\ \E ip \in ImbalancePenalties, pen \in UnassignedPenalties,
          mv \in FMoves(FRootPlan) :
          uc' = Returned("fleetData", "plan", NoVehicle,
                   fleetDataUpdate(<<EmptyMap>>, FInitState(ip, pen),
                                   mv.plan.unassigned,
                                   FChanged(mv.plan, mv.changed)))

PlanInfoFlag ==
    /\ uc.pc = "call"
    /\ \E p \in PInitStates, plan \in Plans(PStops) :
          /\ ~planInfoUpdate(p, plan).aborted
          /\ uc' = Returned("planInfo", "plan", NoVehicle,
                            planInfoUpdate(p, plan))

(***************************************************************************)
(* outputFormat (time-window template).                                    *)
(***************************************************************************)
\* The ID of the location at a route index: a stop of the input, or the
\* start or end of a vehicle.
LocationID(r, n) ==
    IF r < n THEN StopNames[r + 1]
    ELSE IF (r - n) % 2 = 0 THEN "start" ELSE "end"

\* vehicle.Route of the plan handed to the formatter: the ID and the
\* estimated arrival of each position.
PlannedRoute(vehicle, n) ==
    [i \in 1..Len(vehicle.route) |->
        [id |-> LocationID(vehicle.route[i], n), eta |-> vehicle.times.etas[i]]]

\* d.precedenceMap[id]: the empty string when the key is absent.
PartnerGet(precedenceMap, id) ==
    IF id \in DOMAIN precedenceMap THEN precedenceMap[id] ELSE ""

\* A violation test that does not look at the label of the stop.
OFViolationUnlabelled(d, route, i) ==
    At(route, i + 1).id # PartnerGet(d.precedenceMap, At(route, i).id)

\* lifo := d.labelMap[stop.ID]; nextStop := vehicle.Route[i+1];
\* lifo && nextStop.ID != d.precedenceMap[stop.ID]
OFViolation(d, route, i) ==
    LET lifo == At(route, i).id \in d.labelMap
        nextStop == At(route, i + 1)
    IN  lifo /\ nextStop.id # PartnerGet(d.precedenceMap, At(route, i).id)

\* The search for the index of a stop in d.stops: -1 when it is not there.
RECURSIVE OFStopIndex(_, _, _)
OFStopIndex(stops, id, j) ==
    IF j >= Len(stops) THEN -1
    ELSE IF At(stops, j) = id THEN j
    ELSE OFStopIndex(stops, id, j + 1)

\* One position of a route (i counts from 0).  The formatter panics when the
\* stop is not found, and Go panics when an index is out of the range of a
\* table.
OFPosition(d, route, i, acc) ==
    IF acc.aborted \/ i = 0 \/ i = Len(route) - 1 THEN acc
    ELSE LET stop == At(route, i)
             violations == IF OFViolation(d, route, i)
                           THEN acc.lifoViolations + 1
                           ELSE acc.lifoViolations
             stopIndex == OFStopIndex(d.stops, stop.id, 0)
         IN  IF \/ stopIndex = -1
                \/ ~(stopIndex < Len(d.targetTimes))
                \/ ~(stopIndex < Len(d.earlinessPenalties))
                \/ ~(stopIndex < Len(d.latenessPenalties))
             THEN [acc EXCEPT !.aborted = TRUE]
             ELSE LET targetUnix == At(d.targetTimes, stopIndex)
                      earliness == EarlinessOf(targetUnix, stop.eta,
                                       At(d.earlinessPenalties, stopIndex))
                      lateness == LatenessOf(targetUnix, stop.eta,
                                       At(d.latenessPenalties, stopIndex))
                  IN  [acc EXCEPT
                          !.lifoViolations = violations,
                          !.totalEarliness = @ + earliness,
                          !.totalLateness = @ + lateness,
                          !.stops = Append(@, [id |-> stop.id,
                                               earliness |-> earliness,
                                               lateness |-> lateness])]

RECURSIVE OFRoute(_, _, _, _)
OFRoute(d, route, i, acc) ==
    IF i >= Len(route) THEN acc
    ELSE OFRoute(d, route, i + 1, OFPosition(d, route, i, acc))

RECURSIVE OFVehicles(_, _, _, _)
OFVehicles(d, vehicles, v, acc) ==
    IF v >= Len(vehicles) THEN acc
    ELSE OFVehicles(d, vehicles, v + 1, OFRoute(d, At(vehicles, v), 0, acc))

\* The function outputFormat(d) returns, applied to the routes of a plan: the
\* totals of the output and the earliness and lateness written for each
\* stop, or aborted.
outputFormat(d, vehicles) ==
    OFVehicles(d, vehicles, 0,
               [aborted |-> FALSE, lifoViolations |-> 0, totalEarliness |-> 0,
                totalLateness |-> 0, stops |-> <<>>])

\* The stops of the input.
OStopIDs == SubSeq(StopNames, 1, OStops)

\* precedences of the input: none, or one pick-up with its drop-off.
PrecedenceMaps ==
    {[k \in {} |-> ""]} \cup
    {[k \in {OStopIDs[job[1]]} |-> OStopIDs[job[2]]] :
        job \in {t \in (1..OStops) \X (1..OStops) : t[1] # t[2]}}

\* A final plan has the drop-off of a pick-up after it on the same route, or
\* leaves both unassigned.
RespectsPrecedence(plan, precedenceMap) ==
    \A a \in DOMAIN precedenceMap :
        \/ \E v \in 1..Len(plan) :
              \E i, j \in 1..Len(plan[v]) :
                 /\ i < j
                 /\ plan[v][i].id = a
                 /\ plan[v][j].id = precedenceMap[a]
        \/ \A v \in 1..Len(plan) :
              \A i \in 1..Len(plan[v]) :
                 plan[v][i].id \notin {a, precedenceMap[a]}

\* The final plans: the routes of the two vehicles.
FinalPlans ==
    {[v \in 1..Len(pl.vehicles) |-> PlannedRoute(pl.vehicles[v], OStops)] :
        pl \in PlansWith(OStops, {<<0, 0>>})}

\* The planData solver hands to outputFormat: the target-time table covers
\* the first stops of the input or all of them, the other tables all stops.
FmtInit ==
    \E targetTimes \in UNION {[1..m -> Targets] : m \in 0..OStops},
       labelled \in SUBSET {OStopIDs[a] : a \in 1..OStops},
       precedenceMap \in PrecedenceMaps, plan \in FinalPlans :
          /\ RespectsPrecedence(plan, precedenceMap)
          /\ fmt = [pc |-> "call",
                    d |-> [earlinessPenalties |->
                               SubSeq(EarlinessPenaltySeq, 1, OStops),
                           latenessPenalties |->
                               SubSeq(LatenessPenaltySeq, 1, OStops),
                           targetTimes |-> targetTimes,
                           stops |-> OStopIDs,
                           labelMap |-> labelled,
                           precedenceMap |-> precedenceMap],
                    plan |-> plan,
                    out |-> [aborted |-> FALSE, lifoViolations |-> 0,
                             totalEarliness |-> 0, totalLateness |-> 0,
                             stops |-> <<>>]]

Format ==
    /\ fmt.pc = "call"
    /\ fmt' = [fmt EXCEPT !.pc = "done",
                          !.out = outputFormat(fmt.d, fmt.plan)]

(***************************************************************************)
(* genericEncoder.Encode.                                                  *)
(***************************************************************************)
\* strings.HasSuffix(s, suffix), on strings held as sequences of characters.
HasSuffix(str, suffix) ==
    /\ Len(str) >= Len(suffix)
    /\ SubSeq(str, Len(str) - Len(suffix) + 1, Len(str)) = suffix

\* The runner configurations: whether they are an OutputPather and with
\* which path, whether they are a SolutionLimiter and what Solutions()
\* returns, whether they are a Quieter and what Quiet() returns.
OutputPaths ==
    {<<"o", ".", "j", "s", "o", "n">>, <<"o", ".", "g", "z">>, <<"g", "z">>}

Pathers ==
    {[pather |-> FALSE, path |-> <<>>]} \cup
    {[pather |-> TRUE, path |-> q] : q \in OutputPaths}

Limiters == {"none", "error", "all", "last"}

Quieters == {"none", "quiet", "loud"}

\* The solutions of the search, as their JSON reads: the routes of the
\* vehicles and the unassigned stops of the store, and the value of the
\* statistics, which a satisfier leaves out.
Solutions ==
    {[vehicles |-> << <<2, 3>>, <<4, 0, 1, 5>> >>, unassigned |-> <<2>>,
      hasValue |-> TRUE, value |-> 10],
     [vehicles |-> << <<3, 0, 4>> >>, unassigned |-> <<1, 2>>,
      hasValue |-> TRUE, value |-> 7],
     [vehicles |-> << <<3, 0, 1, 2, 4>> >>, unassigned |-> <<>>,
      hasValue |-> FALSE, value |-> 0]}

\* var last Solution: the zero value of the type.
ZeroSolution ==
    [vehicles |-> <<>>, unassigned |-> <<>>, hasValue |-> FALSE, value |-> 0]

\* json.Marshal of the solution and json.Unmarshal into output: the store
\* and the statistics; Value is nil when the solution carries none.
Unmarshal(solution) ==
    [Store |-> [Vehicles |-> solution.vehicles,
                Unassigned |-> solution.unassigned],
     Statistics |-> [ValueIsNil |-> ~solution.hasValue,
                     Value |-> solution.value]]

RECURSIVE Assigned(_, _, _)
Assigned(vehicles, i, assigned) ==
    IF i > Len(vehicles) THEN assigned
    ELSE Assigned(vehicles, i + 1, assigned + (Len(vehicles[i]) - 2))

\* The deferred function that lets the error of Close replace the error of
\* Encode.
DeferredErrLast(err, tempErr) == tempErr

\* if err == nil { err = tempErr }
DeferredErr(err, tempErr) == IF err = "nil" THEN tempErr ELSE err

NoStatistics == [set |-> FALSE, value |-> 0, unassigned |-> 0, assigned |-> 0]

\* The call of Encode: the writer is or is not an io.Closer and an io.Writer;
\* the channel of solutions is open and nothing was sent.
EncInit ==
    \E isCloser \in BOOLEAN, isWriter \in BOOLEAN, pather \in Pathers,
       limiter \in Limiters, quieter \in Quieters :
        enc = [pc |-> "begin", isCloser |-> isCloser, isWriter |-> isWriter,
               pather |-> pather, limiter |-> limiter, quieter |-> quieter,
               sent |-> <<>>, chanClosed |-> FALSE,
               source |-> "solutions", temp |-> <<>>, last |-> ZeroSolution,
               m |-> <<>>, statistics |-> NoStatistics,
               gzip |-> "none", written |-> FALSE, emitted |-> <<>>,
               drained |-> FALSE,
               err |-> "nil", failed |-> <<>>, closes |-> 0,
               gzipAtClose |-> "none", outcome |-> "running"]

\* The search closes the channel of solutions.
CloseSolutions ==
    /\ enc.pc # "idle"
    /\ ~enc.chanClosed
    /\ enc' = [enc EXCEPT !.chanClosed = TRUE]

\* Lines 126-153: the deferred Close is registered, the writer is tested,
\* the gzip writer is put around it and the limiter is asked.
Begin ==
    /\ enc.pc = "begin"
    /\ IF ~enc.isWriter
       THEN enc' = [enc EXCEPT !.pc = "return", !.err = "incompatible",
                               !.failed = Append(@, "incompatible")]
       ELSE LET gz == IF enc.pather.pather
                         /\ HasSuffix(enc.pather.path, <<".", "g", "z">>)
                      THEN "open" ELSE "none"
            IN  IF enc.limiter = "error"
                THEN enc' = [enc EXCEPT !.pc = "return", !.gzip = gz,
                                        !.err = "limiter",
                                        !.failed = Append(@, "limiter")]
                ELSE enc' = [enc EXCEPT
                                !.gzip = gz,
                                !.pc = IF enc.limiter = "last"
                                       THEN "drain" ELSE "collect"]

\* Lines 157-159: one solution is received and kept as the last.
DrainLast ==
    /\ enc.pc = "drain"
    /\ ~enc.chanClosed
    /\ Len(enc.sent) < MaxSolutions
    /\ \E solution \in Solutions :
          enc' = [enc EXCEPT !.sent = Append(@, solution),
                             !.last = solution]

\* Lines 160-163: the channel is closed; last is sent on a channel of its
\* own, which replaces the channel of solutions.
LastOnly ==
    /\ enc.pc = "drain"
    /\ enc.chanClosed
    /\ enc' = [enc EXCEPT !.pc = "collect", !.source = "temp",
                          !.temp = <<enc.last>>, !.drained = TRUE]

\* Lines 175-177 and 220-222: one solution is received and appended.
Collect ==
    /\ enc.pc = "collect"
    /\ \/ /\ enc.source = "solutions"
          /\ ~enc.chanClosed
          /\ Len(enc.sent) < MaxSolutions
          /\ \E solution \in Solutions :
                enc' = [enc EXCEPT !.sent = Append(@, solution),
                                   !.m = Append(@, solution)]
       \/ /\ enc.source = "temp"
          /\ enc.temp # <<>>
          /\ enc' = [enc EXCEPT !.temp = Tail(@),
                                !.m = Append(@, Head(enc.temp))]

\* The range loop ends: the channel it reads is closed and empty.
Collected ==
    /\ enc.pc = "collect"
    /\ \/ enc.source = "solutions" /\ enc.chanClosed
       \/ enc.source = "temp" /\ enc.temp = <<>>
    /\ enc' = [enc EXCEPT !.pc = IF enc.quieter = "loud"
                                 THEN "statistics" ELSE "encode"]

\* Lines 178-211: the statistics of the first solution.  json.Marshal or
\* json.Unmarshal may fail; *s.Statistics.Value panics on a nil Value.
Statistics ==
    /\ enc.pc = "statistics"
    /\ IF Len(enc.m) > 0
       THEN \/ enc' = [enc EXCEPT !.pc = "return", !.err = "marshal",
                                  !.failed = Append(@, "marshal")]
            \/ LET s == Unmarshal(enc.m[1])
               IN  IF s.Statistics.ValueIsNil
                   THEN enc' = [enc EXCEPT !.pc = "panic"]
                   ELSE enc' = [enc EXCEPT
                           !.pc = "encode",
                           !.statistics =
                               [set |-> TRUE,
                                value |-> s.Statistics.Value,
                                unassigned |-> Len(s.Store.Unassigned),
                                assigned |-> Assigned(s.Store.Vehicles, 1, 0)]]
       ELSE enc' = [enc EXCEPT !.pc = "encode"]

\* Lines 212-216 and 223-227: g.encoder.Encode(ioWriter, m) fails or writes
\* m to ioWriter, which is the gzip writer when there is one.
Encode ==
    /\ enc.pc = "encode"
    /\ \/ enc' = [enc EXCEPT !.pc = "return", !.err = "encode",
                             !.failed = Append(@, "encode")]
       \/ enc' = [enc EXCEPT !.pc = "return", !.written = TRUE,
                             !.emitted = enc.m]

\* Lines 128-134, run when Encode returns or panics: Close of the writer,
\* which may fail.  Nothing else runs: the gzip writer is not closed.
DeferredClose ==
    /\ enc.pc \in {"return", "panic"}
    /\ LET outcome == IF enc.pc = "panic" THEN "panicked" ELSE "returned"
       IN  IF enc.isCloser
           THEN \E tempErr \in {"nil", "close"} :
                   enc' = [enc EXCEPT
                             !.pc = "done",
                             !.closes = @ + 1,
                             !.gzipAtClose = enc.gzip,
                             !.failed = IF tempErr = "nil" THEN @
                                        ELSE Append(@, tempErr),
                             !.err = DeferredErr(enc.err, tempErr),
                             !.outcome = outcome]
           ELSE enc' = [enc EXCEPT !.pc = "done", !.outcome = outcome]

PDIdle == pdHeap = <<>> /\ pdNodes = <<>>
FIdle == fHeap = <<>> /\ fNodes = <<>>
SzIdle == sz = [pc |-> "idle"]
CcIdle == cc = [pc |-> "idle"]
VdIdle == vd = [pc |-> "idle"]
PiIdle == pi = [pc |-> "idle"]
UcIdle == uc = [pc |-> "idle"]
FmtIdle == fmt = [pc |-> "idle"]
EncIdle == enc = [pc |-> "idle"]

Init == PDInit /\ FIdle /\ SzIdle /\ CcIdle /\ VdIdle /\ PiIdle
    /\ UcIdle /\ FmtIdle /\ EncIdle

Next == PlanDataUpdate
    /\ UNCHANGED <<fHeap, fNodes, sz, cc, vd, pi, uc, fmt, enc>>

Spec == Init /\ [][Next]_vars

InitFleet == FInit /\ PDIdle /\ SzIdle /\ CcIdle /\ VdIdle /\ PiIdle
    /\ UcIdle /\ FmtIdle /\ EncIdle

NextFleet == FleetDataUpdate
    /\ UNCHANGED <<pdHeap, pdNodes, sz, cc, vd, pi, uc, fmt, enc>>

SpecFleet == InitFleet /\ [][NextFleet]_vars

InitSize == SzInit /\ PDIdle /\ FIdle /\ CcIdle /\ VdIdle /\ PiIdle
    /\ UcIdle /\ FmtIdle /\ EncIdle

NextSize ==
    SizeViolated
    /\ UNCHANGED <<pdHeap, pdNodes, fHeap, fNodes, cc, vd, pi, uc, fmt, enc>>

SpecSize == InitSize /\ [][NextSize]_vars

InitCustom == CcInit /\ PDIdle /\ FIdle /\ SzIdle /\ VdIdle /\ PiIdle
    /\ UcIdle /\ FmtIdle /\ EncIdle

NextCustom ==
    CustomViolated
    /\ UNCHANGED <<pdHeap, pdNodes, fHeap, fNodes, sz, vd, pi, uc, fmt, enc>>

SpecCustom == InitCustom /\ [][NextCustom]_vars

InitVehicle == VdInit /\ PDIdle /\ FIdle /\ SzIdle /\ CcIdle /\ PiIdle
    /\ UcIdle /\ FmtIdle /\ EncIdle

NextVehicle ==
    VehicleDataUpdate
    /\ UNCHANGED <<pdHeap, pdNodes, fHeap, fNodes, sz, cc, pi, uc, fmt, enc>>

SpecVehicle == InitVehicle /\ [][NextVehicle]_vars

InitPlanInfo == PiInit /\ PDIdle /\ FIdle /\ SzIdle /\ CcIdle /\ VdIdle
    /\ UcIdle /\ FmtIdle /\ EncIdle

NextPlanInfo ==
    PlanInfoUpdate
    /\ UNCHANGED <<pdHeap, pdNodes, fHeap, fNodes, sz, cc, vd, uc, fmt, enc>>

SpecPlanInfo == InitPlanInfo /\ [][NextPlanInfo]_vars

InitFlags ==
    /\ UcInit /\ PDIdle /\ FIdle /\ SzIdle /\ CcIdle /\ VdIdle /\ PiIdle
    /\ FmtIdle /\ EncIdle

allButUc == <<pdHeap, pdNodes, fHeap, fNodes, sz, cc, vd, pi, fmt, enc>>

NextFlags ==
    \/ VehicleInfoUpdate /\ UNCHANGED allButUc
    \/ NullVehicleDataUpdate /\ UNCHANGED allButUc
    \/ TimeWindowVehicleDataUpdate /\ UNCHANGED allButUc
    \/ PlanDataFlag /\ UNCHANGED allButUc
    \/ FleetDataFlag /\ UNCHANGED allButUc
    \/ PlanInfoFlag /\ UNCHANGED allButUc

SpecFlags == InitFlags /\ [][NextFlags]_vars

InitFormat ==
    /\ FmtInit /\ PDIdle /\ FIdle /\ SzIdle /\ CcIdle /\ VdIdle /\ PiIdle
    /\ UcIdle /\ EncIdle

NextFormat ==
    Format
    /\ UNCHANGED <<pdHeap, pdNodes, fHeap, fNodes, sz, cc, vd, pi, uc, enc>>

SpecFormat == InitFormat /\ [][NextFormat]_vars

allButEnc == <<pdHeap, pdNodes, fHeap, fNodes, sz, cc, vd, pi, uc, fmt>>

InitEncode ==
    /\ EncInit /\ PDIdle /\ FIdle /\ SzIdle /\ CcIdle /\ VdIdle /\ PiIdle
    /\ UcIdle /\ FmtIdle

NextEncode ==
    \/ CloseSolutions /\ UNCHANGED allButEnc
    \/ Begin /\ UNCHANGED allButEnc
    \/ DrainLast /\ UNCHANGED allButEnc
    \/ LastOnly /\ UNCHANGED allButEnc
    \/ Collect /\ UNCHANGED allButEnc
    \/ Collected /\ UNCHANGED allButEnc
    \/ Statistics /\ UNCHANGED allButEnc
    \/ Encode /\ UNCHANGED allButEnc
    \/ DeferredClose /\ UNCHANGED allButEnc

SpecEncode == InitEncode /\ [][NextEncode]_vars

\* Any one call of a Violated or of an Update that reads attribute tables.
InitCalls == InitSize \/ InitCustom \/ InitVehicle \/ InitPlanInfo

NextCalls == NextSize \/ NextCustom \/ NextVehicle \/ NextPlanInfo

SpecCalls == InitCalls /\ [][NextCalls]_vars

(***************************************************************************)
(* Properties of planData.Update.                                          *)
(***************************************************************************)
\* C1: after any sequence of planData.Update calls from the initial state,
\* the returned plan value (and the planValue of the returned state) is the
\* from-scratch sum, over the vehicles ever reported in a changed-vehicles
\* list, of the value each reported last.
C1_PlanValueIsSumOfReported ==
    \A i \in 1..Len(pdNodes) :
        /\ pdNodes[i].value = MapSum(pdNodes[i].reported)
        /\ pdNodes[i].st.planValue = pdNodes[i].value

\* A state reached by two Updates in a row in which a vehicle was reported
\* twice, with two different values.
C1_Witness ==
    \E i \in 1..Len(pdNodes) :
        /\ pdNodes[i].parent > 1
        /\ \E a \in 1..Len(pdNodes[i].vehicles) :
             \E b \in 1..Len(pdNodes[pdNodes[i].parent].vehicles) :
               LET x == pdNodes[i].vehicles[a]
                   y == pdNodes[pdNodes[i].parent].vehicles[b]
               IN  x.id = y.id /\ x.value # y.value
        /\ pdNodes[i].value > 0

\* C4: planData.Update writes to a copy of the value map: every state the
\* search holds keeps, through every later call, the map contents and the
\* planValue it had when it was returned, and no two returned states share
\* a map.
C4_PlanDataOldStateUnchanged ==
    /\ \A i \in 1..Len(pdNodes) :
          /\ Deref(pdHeap, pdNodes[i].st.vehicleValues) = pdNodes[i].snap
          /\ pdNodes[i].st.planValue = pdNodes[i].value
    /\ \A i, j \in 1..Len(pdNodes) :
          i # j /\ pdNodes[i].st.vehicleValues # 0
             => pdNodes[i].st.vehicleValues # pdNodes[j].st.vehicleValues

\* An Update on a state with a non-empty map has overwritten, in the new
\* state's map, an entry the old state's map holds.
C4_Witness ==
    \E i \in 1..Len(pdNodes) :
        /\ pdNodes[i].parent > 1
        /\ \E k \in DOMAIN pdNodes[pdNodes[i].parent].snap :
              pdNodes[i].snap[k] # pdNodes[pdNodes[i].parent].snap[k]

(***************************************************************************)
(* Properties of fleetData.Update.                                         *)
(***************************************************************************)
Min(S) == CHOOSE x \in S : \A y \in S : x <= y
Max(S) == CHOOSE x \in S : \A y \in S : x >= y

RouteLengths(plan) == {plan.len[v] : v \in VehicleIDs}

\* The plan value computed from scratch on a plan.
FromScratch(plan, imbalancePenalty, unassignedPenalty) ==
    SumOver(plan.val, VehicleIDs)
    + (Max(RouteLengths(plan)) - Min(RouteLengths(plan))) * imbalancePenalty
    + plan.unassigned * unassignedPenalty

\* C2: the value fleetData.Update returns is the from-scratch value of the
\* plan it was given: the sum of the vehicle values, plus (max - min route
\* length) * imbalancePenalty, plus unassigned count * unassignedPenalty.
C2_FleetValueIsFromScratch ==
    \A i \in 2..Len(fNodes) :
        fNodes[i].value =
            FromScratch(fNodes[i].plan, fNodes[i].st.imbalancePenalty,
                        fNodes[i].st.unassignedPenalty)

\* C3: after every fleetData.Update the state's minLength and maxLength are
\* the minimum and maximum route length over all vehicles of the plan.
C3_MinMaxAreActual ==
    \A i \in 2..Len(fNodes) :
        /\ fNodes[i].st.minLength = Min(RouteLengths(fNodes[i].plan))
        /\ fNodes[i].st.maxLength = Max(RouteLengths(fNodes[i].plan))

\* C5: fleetData.Update leaves its input state as it was: every state the
\* search holds keeps the map contents it had when it was returned.
C5_FleetOldStateUnchanged ==
    \A i \in 1..Len(fNodes) :
        Deref(fHeap, fNodes[i].st.vehicleValues) = fNodes[i].snap

\* The result of evaluating a candidate alone: Update on the parent state as
\* it was returned, with no other call in between.
FAlone(node) ==
    fleetDataUpdate(<<fNodes[node.parent].snap>>,
                    [fNodes[node.parent].st EXCEPT !.vehicleValues = 1],
                    node.plan.unassigned, FChanged(node.plan, node.changed))

\* C6: the value and state a branch obtains from fleetData.Update do not
\* depend on the sibling branches evaluated before it: they are those of
\* evaluating the branch alone on its parent state.
C6_FleetSiblingOrderIndependent ==
    \A i \in 2..Len(fNodes) :
        /\ fNodes[i].value = FAlone(fNodes[i]).value
        /\ fNodes[i].snap = FAlone(fNodes[i]).heap[1]

\* C7: a plan-level Update called twice with the same input state and the
\* same (plan, changed vehicles) returns the same value and the same state.
C7_UpdateDeterministic ==
    /\ \A i, j \in 2..Len(fNodes) :
          /\ fNodes[i].parent = fNodes[j].parent
          /\ fNodes[i].plan = fNodes[j].plan
          /\ fNodes[i].changed = fNodes[j].changed
          => /\ fNodes[i].value = fNodes[j].value
             /\ fNodes[i].st = fNodes[j].st
    /\ \A i, j \in 2..Len(pdNodes) :
          /\ pdNodes[i].parent = pdNodes[j].parent
          /\ pdNodes[i].vehicles = pdNodes[j].vehicles
          => /\ pdNodes[i].value = pdNodes[j].value
             /\ pdNodes[i].snap = pdNodes[j].snap

(***************************************************************************)
(* Properties of the vehicle constraints.                                  *)
(***************************************************************************)
\* Two strings are equal when compared without regard to case.
EqualFold(a, b) ==
    /\ Len(a) = Len(b)
    /\ \A i \in 1..Len(a) : ToLowerChar(a[i]) = ToLowerChar(b[i])

\* The positions of the interior stops of the route whose classification
\* label is "large" in any case; a stop without an entry has no label.
LargePositions(s) ==
    {i \in 2..(Len(s.route) - 1) :
        /\ s.stops[s.route[i] + 1] \in DOMAIN s.classification
        /\ EqualFold(s.classification[s.stops[s.route[i] + 1]],
                     <<"l", "a", "r", "g", "e">>)}

\* C8: SizeClassificationConstraint.Violated returns true exactly when more
\* than one interior stop of the route has a label equal to "large" without
\* regard to case; stops with no classification entry are not large.
C8_SizeViolatedIffTwoLarge ==
    sz.pc = "done" => (sz.violated <=> Cardinality(LargePositions(sz)) > 1)

\* Violated has returned true on a route whose two interior stops are
\* labelled "Large" and "LARGE".
C8_Witness ==
    /\ sz.pc = "done"
    /\ sz.violated
    /\ Len(sz.route) = 4
    /\ ClassOf(sz.classification, sz.stops[sz.route[2] + 1])
          = <<"L", "a", "r", "g", "e">>
    /\ ClassOf(sz.classification, sz.stops[sz.route[3] + 1])
          = <<"L", "A", "R", "G", "E">>

\* C9: CustomConstraint.Violated returns false for a route with at most one
\* interior stop, and otherwise returns true exactly when an interior stop
\* after the first has a type that is not the very string the first
\* interior stop has.
C9_CustomViolatedIffTypeDiffers ==
    cc.pc = "done" =>
        LET in == Interior(cc.route)
        IN  IF Len(in) <= 1 THEN cc.violated = FALSE
            ELSE cc.violated <=>
                    \E k \in 2..Len(in) :
                        cc.types[in[k] + 1] # cc.types[in[1] + 1]

\* Violated has returned true on a route of three interior stops of which
\* only the last has another type than the first.
C9_Witness ==
    /\ cc.pc = "done"
    /\ cc.violated
    /\ Len(cc.route) = 5
    /\ cc.types[cc.route[3] + 1] = cc.types[cc.route[2] + 1]
    /\ cc.types[cc.route[4] + 1] # cc.types[cc.route[2] + 1]

(***************************************************************************)
(* Properties of vehicleData.Update.                                       *)
(***************************************************************************)
Max0(x) == IF x > 0 THEN x ELSE 0

\* The positions of the interior stops of the route that have a target time.
TargetPositions(s) ==
    {i \in 2..(Len(s.route) - 1) : s.route[i] < Len(s.v.targetTimes)}

\* The earliness and the lateness penalty the stop at a position is due.
DueEarliness(s, i) ==
    Max0(s.v.targetTimes[s.route[i] + 1] - s.times.etas[i])
        * s.v.earlinessPenalties[s.route[i] + 1]

DueLateness(s, i) ==
    Max0(s.times.etas[i] - s.v.targetTimes[s.route[i] + 1])
        * s.v.latenessPenalties[s.route[i] + 1]

RECURSIVE SumDue(_, _)
SumDue(s, positions) ==
    IF positions = {} THEN 0
    ELSE LET i == CHOOSE x \in positions : TRUE
         IN  DueEarliness(s, i) + DueLateness(s, i)
             + SumDue(s, positions \ {i})

C11_DurationCountedOnce ==
    vd.pc = "done" =>
        vd.ret.totalDuration =
            vd.times.etds[Len(vd.times.etds)] - vd.times.etas[1]


(***************************************************************************)
(* Properties of planInfo.Update.                                          *)
(***************************************************************************)
\* The state of a call with every initialization cost set to zero.
ZeroCosts(p) == [p EXCEPT !.initCosts = [j \in DOMAIN p.initCosts |-> 0]]

\* The part of the returned value that is due to the initialization costs.
InitCostPart(s) == s.ret.value - planInfoUpdate(ZeroCosts(s.p), s.plan).value

\* The initialization cost each vehicle is due: its cost, as an integer, when
\* its route visits a stop.
DueInitCosts(s) ==
    [j \in 1..Len(s.plan.vehicles) |->
        IF Len(s.plan.vehicles[j].route) > 2
        THEN s.p.initCosts[j] \div 10
        ELSE 0]

\* C12: the value planInfo.Update returns holds the initialization cost of a
\* vehicle once if its route has more than 2 positions and not at all if the
\* route holds only the start and the end.
C12_InitCostIffRouteVisitsStop ==
    (pi.pc = "done" /\ ~pi.ret.aborted) =>
        InitCostPart(pi) =
            SumOver(DueInitCosts(pi), 1..Len(pi.plan.vehicles))

\* Update has returned on a plan whose first vehicle, of cost 10.5, visits no
\* stop and whose second, of cost 20, visits one: the cost part is 20.
C12_Witness ==
    /\ pi.pc = "done"
    /\ ~pi.ret.aborted
    /\ pi.p.initCosts = <<105, 200>>
    /\ Len(pi.plan.vehicles[1].route) = 2
    /\ Len(pi.plan.vehicles[2].route) > 2
    /\ InitCostPart(pi) = 20

\* The part of the returned value that is due to the utilization terms: the
\* value less the value of the same call without quantities, in which every
\* vehicle is charged the full scale.
UtilPart(s) ==
    s.ret.value - planInfoUpdate([s.p EXCEPT !.quantities = <<>>], s.plan).value
        + 20000 * Len(s.plan.vehicles)

\* The utilization term of vehicle j of the call.
UtilTermOf(s, j) ==
    PIUtilization(PITotalVolume(s.p.quantities, s.plan.vehicles[j].route, 1, 0),
                  s.p.capacities[j])

\* The positions of the route of vehicle j whose stop has a quantity.
QuantityPositions(s, j) ==
    {i \in 1..Len(s.plan.vehicles[j].route) :
        s.plan.vehicles[j].route[i] < Len(s.p.quantities)}

Abs(x) == IF x < 0 THEN -x ELSE x

\* The total magnitude of the quantities on the route of vehicle j, and the
\* total of its drop-offs alone.
TotalMagnitude(s, j) ==
    SumOver([i \in QuantityPositions(s, j) |->
                Abs(s.p.quantities[s.plan.vehicles[j].route[i] + 1])],
            QuantityPositions(s, j))

TotalDropOff(s, j) ==
    SumOver([i \in QuantityPositions(s, j) |->
                Max0(-s.p.quantities[s.plan.vehicles[j].route[i] + 1])],
            QuantityPositions(s, j))

\* t is (1 - total / capacity) * 20000 truncated to an integer.
IsUnusedShare(t, total, capacity) ==
    /\ t * capacity <= (capacity - total) * 20000
    /\ (capacity - total) * 20000 < (t + 1) * capacity

C14_FalseFlagMeansValueZero ==
    uc.pc = "done" =>
        /\ (uc.level = "vehicle" /\ ~uc.ret.propagate) => uc.ret.value = 0
        /\ uc.updater = "vehicleData" => uc.ret.propagate
        /\ uc.level = "plan" => uc.ret.propagate

\* C14 amended: a vehicle-level Update that returns false is one of the two
\* null evaluators and computes nothing from the route: vehicleData.Update of
\* the bakery template returns 0 and vehicleInfo.Update returns the value the
\* engine already holds for the vehicle (s.Value()), which need not be 0.
\* The vehicle-level Update that computes a value from the route returns
\* true, and every plan-level Update returns true.
C14_FalseFlagMeansNullEvaluator ==
    uc.pc = "done" =>
        /\ (uc.level = "vehicle" /\ ~uc.ret.propagate) =>
              \/ uc.updater = "bakery vehicleData" /\ uc.ret.value = 0
              \/ uc.updater = "vehicleInfo" /\ uc.ret.value = uc.s.value
        /\ uc.updater \in {"vehicleInfo", "bakery vehicleData"} =>
              ~uc.ret.propagate
        /\ uc.updater = "vehicleData" => uc.ret.propagate
        /\ uc.level = "plan" => uc.ret.propagate

\* vehicleInfo.Update has returned false on a vehicle the engine values at
\* 140, with value 140.
C14_Witness ==
    /\ uc.pc = "done"
    /\ uc.updater = "vehicleInfo"
    /\ uc.s.value = 140
    /\ Len(uc.s.route) > 2
    /\ uc.ret.value = 140
    /\ ~uc.ret.propagate

(***************************************************************************)
(* Properties of the unassigned part of the plan value.                    *)
(***************************************************************************)
\* A fleetData state with the unassigned part of its value taken out.
FWithoutUnassigned(f) ==
    [f EXCEPT !.fleetValue = @ - f.unassignedStops * f.unassignedPenalty,
              !.unassignedStops = 0]

\* The value the call that made node k would return from the same state
\* without its unassigned part, on the same plan with no stop unassigned.
FValueNoUnassigned(k) ==
    fleetDataUpdate(<<fNodes[k].before>>,
                    FWithoutUnassigned(fNodes[fNodes[k].parent].st), 0,
                    FChanged(fNodes[k].plan, fNodes[k].changed)).value

\* C15: after every fleetData.Update the state's unassignedStops is the
\* number of unassigned stops of the given plan, and the value holds exactly
\* that number times unassignedPenalty for them: nothing is left of the part
\* the state held from the call before.
C15_UniformUnassignedPart ==
    \A k \in 2..Len(fNodes) :
        /\ fNodes[k].st.unassignedStops = fNodes[k].plan.unassigned
        /\ fNodes[k].value - FValueNoUnassigned(k) =
               fNodes[k].plan.unassigned * fNodes[k].st.unassignedPenalty

\* Update has returned on a plan with two stops unassigned, from a state
\* that held one: the unassigned part is 2 * unassignedPenalty.
C15_Witness ==
    \E k \in 2..Len(fNodes) :
        /\ fNodes[fNodes[k].parent].st.unassignedStops = 1
        /\ fNodes[k].plan.unassigned = 2
        /\ fNodes[k].st.unassignedPenalty = 5
        /\ fNodes[k].value - FValueNoUnassigned(k) = 10

\* The part of the value planInfo.Update returned that is due to the
\* unassigned stops: the value less that of the same call on the same plan
\* with no stop unassigned.
UnassignedPart(s) ==
    s.ret.value
        - planInfoUpdate(s.p, [s.plan EXCEPT !.unassigned = <<>>]).value

\* The stops the plan leaves unassigned.
UnassignedSet(s) == {s.plan.unassigned[i] : i \in 1..Len(s.plan.unassigned)}

\* C16: the unassigned part of the value planInfo.Update returns is the sum
\* of penalties[u] over the stops u the plan leaves unassigned; it is
\* computed anew on every call: the returned state is the receiver as it was
\* and the counters a state carries have no effect on the value; penalties
\* 5 and 12 give 17.
C16_PerStopUnassignedPart ==
    (pi.pc = "done" /\ ~pi.ret.aborted) =>
        /\ UnassignedPart(pi) =
               SumOver([u \in UnassignedSet(pi) |-> pi.p.penalties[u + 1]],
                       UnassignedSet(pi))
        /\ pi.ret.st = pi.p
        /\ \A n \in 0..PStops, x \in PDValues :
              planInfoUpdate([pi.p EXCEPT !.unassignedStops = n,
                                          !.fleetValue = x],
                             pi.plan).value = pi.ret.value

\* Update has returned on a plan that leaves unassigned the two stops of
\* penalties 5 and 12: the unassigned part is 17.
C16_Witness ==
    /\ pi.pc = "done"
    /\ ~pi.ret.aborted
    /\ UnassignedSet(pi) = {0, 1}
    /\ pi.p.penalties[1] = 5
    /\ pi.p.penalties[2] = 12
    /\ UnassignedPart(pi) = 17

(***************************************************************************)
(* Properties of outputFormat.                                             *)
(***************************************************************************)
\* The interior positions of the routes of the plan: vehicle and position.
InteriorPositions(plan) ==
    UNION {{<<v, i>> : i \in 2..(Len(plan[v]) - 1)} : v \in 1..Len(plan)}

\* The interior positions whose stop is flagged and is not followed by its
\* drop-off partner.
LifoPositions(s) ==
    {x \in InteriorPositions(s.plan) :
        LET id == s.plan[x[1]][x[2]].id
            next == s.plan[x[1]][x[2] + 1].id
        IN  /\ id \in s.d.labelMap
            /\ ~(id \in DOMAIN s.d.precedenceMap
                 /\ s.d.precedenceMap[id] = next)}

\* The planData without labels and precedences.
Unlabelled(d) ==
    [d EXCEPT !.labelMap = {}, !.precedenceMap = [k \in {} |-> ""]]

StopsWithoutTarget(s) ==
    {s.plan[x[1]][x[2]].id : x \in
        {y \in InteriorPositions(s.plan) :
            \E j \in (Len(s.d.targetTimes) + 1)..Len(s.d.stops) :
                s.d.stops[j] = s.plan[y[1]][y[2]].id}}

\* C18: in outputFormat a stop of a route whose index is beyond the end of
\* the target-time table is no error and is written with earliness 0 and
\* lateness 0.
C18_NoTargetIsZeroNotError ==
    fmt.pc = "done" =>
        /\ ~fmt.out.aborted
        /\ \A k \in 1..Len(fmt.out.stops) :
              fmt.out.stops[k].id \in StopsWithoutTarget(fmt) =>
                  /\ fmt.out.stops[k].earliness = 0
                  /\ fmt.out.stops[k].lateness = 0

(***************************************************************************)
(* Properties of the tables that are to cover all stops.                   *)
(***************************************************************************)
\* The stops on the routes of the plan that the quantities table does not
\* cover.
StopsWithoutQuantity(s) ==
    {s.plan.vehicles[x[1]].route[x[2]] : x \in
        {y \in UNION {{<<j, i>> : i \in 2..(Len(s.plan.vehicles[j].route) - 1)} :
                      j \in 1..Len(s.plan.vehicles)} :
            ~(s.plan.vehicles[y[1]].route[y[2]] < Len(s.p.quantities))}}

\* C19: when a route holds a stop whose index is outside the quantities
\* table, planInfo.Update aborts and does not skip the stop.
C19_StopOutsideTableAborts ==
    (pi.pc = "done" /\ StopsWithoutQuantity(pi) # {}) => pi.ret.aborted

GzPath(e) ==
    /\ e.pather.pather
    /\ Len(e.pather.path) >= 3
    /\ e.pather.path[Len(e.pather.path) - 2] = "."
    /\ e.pather.path[Len(e.pather.path) - 1] = "g"
    /\ e.pather.path[Len(e.pather.path)] = "z"

\* C21: when the output path ends in .gz, the solutions Encode has written
\* went through a gzip stream that is completed, and it was completed before
\* the writer was closed; when the path does not end in .gz they were written
\* with no gzip stream.
C21_GzipCompletedBeforeClose ==
    (enc.pc = "done" /\ enc.written) =>
        IF GzPath(enc)
        THEN /\ enc.gzip = "closed"
             /\ enc.closes > 0 => enc.gzipAtClose = "closed"
        ELSE enc.gzip = "none"

(***************************************************************************)
(* The frame of planData.Update.                                           *)
(***************************************************************************)
\* The vehicles in the changed-vehicles argument of the call that made node k.
ChangedIDs(k) ==
    {pdNodes[k].vehicles[i].id : i \in 1..Len(pdNodes[k].vehicles)}

\* C22: planData.Update changes the recorded value of the listed vehicles
\* only: a vehicle that is not in the list has in the returned state the
\* entry it has in the input state (or none, if it has none there), and a
\* call with an empty list returns the planValue of the input state.
C22_UnlistedVehiclesKeepValue ==
    \A k \in 2..Len(pdNodes) :
        LET input == pdNodes[pdNodes[k].parent]
        IN  /\ \A id \in VehicleIDs \ ChangedIDs(k) :
                  /\ id \in DOMAIN pdNodes[k].snap <=> id \in DOMAIN input.snap
                  /\ MapGet(pdNodes[k].snap, id) = MapGet(input.snap, id)
            /\ pdNodes[k].vehicles = <<>> =>
                  pdNodes[k].value = input.st.planValue

\* From a state that records 7 for a vehicle, Update has returned once on a
\* list without that vehicle and once on the empty list.
C22_Witness ==
    /\ \E k \in 2..Len(pdNodes) :
          /\ pdNodes[k].vehicles # <<>>
          /\ \E id \in VehicleIDs \ ChangedIDs(k) :
                /\ id \in DOMAIN pdNodes[pdNodes[k].parent].snap
                /\ pdNodes[pdNodes[k].parent].snap[id] = 7
                /\ pdNodes[k].snap[id] = 7
    /\ \E k \in 2..Len(pdNodes) :
          /\ pdNodes[k].vehicles = <<>>
          /\ pdNodes[pdNodes[k].parent].st.planValue = 7
          /\ pdNodes[k].value = 7

\* C23: Encode closes a writer that is an io.Closer once, when it returns
\* and not before, on every path: an incompatible writer, an error of the
\* limiter, of the marshalling or of the encoder, or success; the error it
\* returns is the first error that occurred, so that an error of Close is
\* returned only when there was none before it.
C23_ClosedOnceFirstErrorReturned ==
    /\ enc.pc # "done" => enc.closes = 0
    /\ enc.pc = "done" =>
          /\ enc.closes = IF enc.isCloser THEN 1 ELSE 0
          /\ enc.outcome = "returned" =>
                /\ enc.err = IF enc.failed = <<>> THEN "nil" ELSE enc.failed[1]
                /\ enc.err = "close" => enc.failed = <<"close">>

\* Encode has returned the error of the encoder after Close failed too.
C23_Witness ==
    /\ enc.pc = "done"
    /\ enc.outcome = "returned"
    /\ enc.isCloser
    /\ enc.closes = 1
    /\ enc.failed = <<"encode", "close">>
    /\ enc.err = "encode"

\* C24: with the limiter run.Last, Encode emits after the channel of
\* solutions is closed, and emits the last solution received and nothing
\* else, or nothing when none was received; with any other limiter, or none,
\* it emits every solution received, in the order received.
C24_LastEmitsLastReceived ==
    enc.written =>
        IF enc.limiter = "last"
        THEN /\ enc.drained
             /\ enc.chanClosed
             /\ enc.emitted = IF enc.sent = <<>> THEN <<>>
                              ELSE <<enc.sent[Len(enc.sent)]>>
        ELSE enc.emitted = enc.sent

\* The stops on the routes of a solution, the start and end of each route
\* left out.
StopsAssigned(solution) ==
    SumOver([v \in 1..Len(solution.vehicles) |-> Len(solution.vehicles[v]) - 2],
            1..Len(solution.vehicles))

\* C25: in non-quiet mode with at least one solution to emit (and no error
\* of the marshalling), Encode does not fail and takes the statistics from
\* the first solution: assigned is the sum over its vehicles of the route
\* length less 2 and unassigned the number of its unassigned stops, also
\* when the solution carries no value.
C25_StatisticsOfFirstSolution ==
    (/\ enc.pc = "done"
     /\ enc.quieter = "loud"
     /\ Len(enc.m) > 0
     /\ \A k \in 1..Len(enc.failed) : enc.failed[k] # "marshal") =>
        /\ enc.outcome = "returned"
        /\ enc.statistics.set
        /\ enc.statistics.assigned = StopsAssigned(enc.m[1])
        /\ enc.statistics.unassigned = Len(enc.m[1].unassigned)

(***************************************************************************)
(* The guard of CustomConstraint.Violated.                                 *)
(***************************************************************************)
\* The labels of the interior stops of the route of the call.
InteriorLabels(c) ==
    {c.types[Interior(c.route)[k] + 1] : k \in 1..Len(Interior(c.route))}

\* C26: the guard of CustomConstraint.Violated tests the number of entries
\* of the table of types, which has one entry per stop: on a route with two
\* or more interior stops the guard is true, whatever the number of distinct
\* labels, and the result is that of the comparison of the labels, so the
\* constraint is satisfied exactly when the interior stops share one label,
\* and always when all stops share one label.
C26_GuardCountsEntries ==
    (cc.pc = "done" /\ Len(Interior(cc.route)) >= 2) =>
        /\ CCGuard(cc.types)
        /\ cc.violated <=> Cardinality(InteriorLabels(cc)) > 1
        /\ Cardinality({cc.types[i] : i \in 1..Len(cc.types)}) = 1 =>
              ~cc.violated

\* Violated has returned false on a route of two interior stops with all
\* stops labelled A: one distinct label, more than one entry.
C26_Witness ==
    /\ cc.pc = "done"
    /\ Len(Interior(cc.route)) = 2
    /\ {cc.types[i] : i \in 1..Len(cc.types)} = {"A"}
    /\ Len(cc.types) > 1
    /\ ~cc.violated
====
